---- MODULE Spec2Model ----
(***************************************************************************)
(* Model of the notebook extension's Python runtime installer              *)
(* (extensions/notebook/src/jupyter/jupyterServerInstallation.ts).         *)
(*                                                                         *)
(* One JupyterServerInstallation instance, a file system, a configuration  *)
(* store and a bounded number of startInstallProcess calls.  JavaScript is *)
(* single threaded: every action below is one run-to-completion segment,   *)
(* i.e. one I/O callback together with all promise continuations that it   *)
(* makes runnable.                                                         *)
(***************************************************************************)
EXTENDS Integers, Sequences, FiniteSets, TLC

\* Number of startInstallProcess calls issued on the instance.
NumCalls == 2

\* Sizes, in bytes, of a download: largest content-length, largest chunk of a
\* 'data' event, largest number of bytes received.
MaxTotal == 10
MaxChunk == 4
MaxReceived == 12

\* Largest number of reconfigurations of the paths after construction.
MaxReconfigure == 3

\* Web workers: number of create() calls, of workers constructed, and, over
\* all workers, of postMessage calls, of dispose calls and of error events.
MaxCreates == 3
MaxWorkers == 2
MaxPosts == 2
MaxDisposes == 2
MaxErrors == 2

Calls == 1..NumCalls

\* A path is a sequence of segments; the empty path stands for
\* undefined / '' (both falsy in the source).
None == <<>>

\* process.platform; every other platform takes the branches of "linux".
Platforms == {"win32", "linux"}
winPlatform == "win32"
bundleVersion == "pythonBundleVersion"
DefaultPythonLocation == <<"home", "azuredatastudio-python">>
UserPaths == {<<"p1">>}
Roots == UserPaths \cup {DefaultPythonLocation}
AmbientPath == <<"$PATH">>

OkHttp == 200
HttpCodes == {200, 404}

VARIABLES
    platform,            \* process.platform
    installationPath,    \* _pythonInstallationPath
    forceInstall,        \* _forceInstall
    installInProgress,   \* _installInProgress
    executablePath,      \* _pythonExecutable
    binPath,             \* pythonBinPath
    packageDir,          \* _pythonPackageDir
    environmentPathVar,  \* pythonEnvVarPath (list of PATH entries)
    config,              \* notebook.pythonPath in the configuration store
    exeAt,               \* roots under which an extracted copy (with executable) exists
    calls,               \* per call: position, promise, pipeline, task, history
    probe,               \* one evaluation of the static isPythonInstalled
    dl,                  \* locals of one download: totalMegaBytes, receivedBytes, printThreshold
    envs,                \* process.env and execOptions.env, with the number of reconfigurations
    ww                   \* the worker factories and the web workers they created

inst == <<installationPath, forceInstall, installInProgress,
          executablePath, binPath, packageDir, environmentPathVar>>
vars == <<platform, installationPath, forceInstall, installInProgress,
          executablePath, binPath, packageDir, environmentPathVar,
          config, exeAt, calls, probe, dl, envs, ww>>

\* State outside the installer instance proper.
aux == <<probe, dl, envs, ww>>

----------------------------------------------------------------------------
\* path.join: concatenates the segments, empty arguments contribute nothing.
PathJoin(a, b) == a \o b

getPythonExePath(pf, p) ==
    PathJoin(PathJoin(p, <<bundleVersion>>),
             IF pf = winPlatform THEN <<"python.exe">> ELSE <<"bin", "python3">>)

\* Variant of configurePackagePaths that prepends the Scripts directory last.
configurePackagePathsScriptsFirst(pf, p) ==
    LET pythonSourcePath == PathJoin(p, <<bundleVersion>>)
        pythonBinPathSuffix == IF pf = winPlatform THEN <<>> ELSE <<"bin">>
        bin == PathJoin(pythonSourcePath, pythonBinPathSuffix)
        env0 == <<bin, AmbientPath>>
        env1 == IF pf = winPlatform
                THEN <<PathJoin(pythonSourcePath, <<"Scripts">>)>> \o env0
                ELSE env0
    IN [packageDir |-> PathJoin(pythonSourcePath, <<"offlinePackages">>),
        executablePath |-> getPythonExePath(pf, p),
        binPath |-> bin,
        environmentPathVar |-> env1]

\* configurePackagePaths, as a function of the installation path.
configurePackagePaths(pf, p) ==
    LET pythonSourcePath == PathJoin(p, <<bundleVersion>>)
        pythonBinPathSuffix == IF pf = winPlatform THEN <<>> ELSE <<"bin">>
        bin == PathJoin(pythonSourcePath, pythonBinPathSuffix)
        env0 == <<AmbientPath>>
        env1 == IF pf = winPlatform
                THEN <<PathJoin(pythonSourcePath, <<"Scripts">>)>> \o env0
                ELSE env0
    IN [packageDir |-> PathJoin(pythonSourcePath, <<"offlinePackages">>),
        executablePath |-> getPythonExePath(pf, p),
        binPath |-> bin,
        environmentPathVar |-> <<bin>> \o env1]

\* fs.existsSync of an executable path: the extracted copy under that root exists.
ExeExists(exe) == \E r \in exeAt : getPythonExePath(platform, r) = exe

getPythonPathSetting(cfg, dirs) == IF cfg # None /\ cfg \in dirs THEN cfg ELSE None

\* Variant of isPythonInstalled that falls back to the default location.
isPythonInstalledDefaulting(cfg, dirs) ==
    ExeExists(getPythonExePath(platform,
                               IF getPythonPathSetting(cfg, dirs) # None
                               THEN getPythonPathSetting(cfg, dirs)
                               ELSE DefaultPythonLocation))

\* static isPythonInstalled: the setting, then the executable under it.
isPythonInstalled(cfg, dirs) ==
    LET pathSetting == getPythonPathSetting(cfg, dirs)
    IN IF pathSetting = None
       THEN FALSE
       ELSE ExeExists(getPythonExePath(platform, pathSetting))

getPythonInstallPath(cfg, dirs) ==
    LET userPath == getPythonPathSetting(cfg, dirs)
    IN IF userPath # None THEN userPath ELSE DefaultPythonLocation

----------------------------------------------------------------------------
Terminal == {"Succeeded", "Failed"}
SettledPc == {"resolved", "rejected", "rejRunning", "rejPending"}
Settled(r) == r.pc \in SettledPc

NewCall ==
    [pc |-> "idle",        \* position of the startInstallProcess call
     pipe |-> "idle",      \* position of installPythonPackage's callback chain
     P |-> "none",         \* promise returned by installPythonPackage
     \* Locals; each is reset once the code reads it no more.
     force |-> FALSE, path |-> None, \* arguments of the call
     chkPath |-> None,     \* argument of isPythonRunning
     dest |-> None,        \* decompress target
     cfgArg |-> None,      \* value passed to notebookConfig.update
     tstatus |-> "None",   \* status of the background task ("None": no task)
     tfail |-> "none",     \* error embedded in the Failed status message
     late |-> FALSE,       \* updateStatus was called after a terminal status
     errShown |-> FALSE,   \* showErrorMessage(errorMsg) of the catch handler
     cleared |-> 0,        \* number of times the call cleared the guard
     passed |-> FALSE,     \* the call passed both guards and set the guard
     skip |-> FALSE,       \* the call took the "executable already exists" branch
     moved |-> FALSE,      \* the call replaced the installation path by another one
     http |-> 0,           \* status code of the download response
     firstFail |-> "none", \* first fatal pipeline failure of the attempt
     steps |-> {},         \* pipeline steps begun / ended
     settledAtIssue |-> {},\* calls already settled when this call was issued
     heldAtCheck |-> {}]   \* calls holding the guard when the running-check completed

\* No evaluation of isPythonInstalled recorded.
NoProbe == [dirAt |-> {}, installed |-> "unknown"]

\* No download in progress.
NoDownload ==
    [phase |-> "off",
     totalMegaBytes |-> [kind |-> "undefined", bytes |-> 0],
     receivedBytes |-> 0,
     printThreshold |-> 1,
     lines |-> 0]

\* DefaultWorkerFactory instances and the values of _webWorkerFailedBeforeError:
\* false, or the error recorded last.
Factories == {"f1", "f2"}
Errors == {"e1", "e2"}
NoError == "false"

\* No factory has created a worker.
NoWorkers ==
    [LAST_WORKER_ID |-> 0,
     failed |-> [f \in Factories |-> NoError],
     workers |-> <<>>,
     fired |-> <<>>,       \* error events of the underlying workers: <<worker, error>>
     notified |-> <<>>,    \* calls of the caller's onErrorCallback: <<factory, error>>
     lastCreate |-> [factory |-> "none", result |-> "none", error |-> NoError]]

\* The environments are not followed.
NoEnvs == [processEnv |-> <<>>, execOptions |-> <<>>, count |-> 0]

\* The call has settled and no callback of its attempt is outstanding.
Quiescent(r) == Settled(r) /\ r.pipe \in {"idle", "done", "dead"}

Init ==
    /\ platform \in Platforms
    /\ exeAt \in SUBSET Roots
    /\ config \in UserPaths \cup {None}
    /\ \E pythonInstallationPath \in UserPaths \cup {None},
          dirs \in {d \in SUBSET Roots : exeAt \subseteq d} :
          installationPath = IF pythonInstallationPath # None
                             THEN pythonInstallationPath
                             ELSE getPythonInstallPath(config, dirs)
    /\ forceInstall = FALSE
    /\ installInProgress = FALSE
    /\ LET d == configurePackagePaths(platform, installationPath)
       IN /\ executablePath = d.executablePath
          /\ binPath = d.binPath
          /\ packageDir = d.packageDir
          /\ environmentPathVar = d.environmentPathVar
    /\ calls = [c \in Calls |-> NewCall]
    /\ probe = NoProbe
    /\ dl = NoDownload
    /\ envs = NoEnvs
    /\ ww = NoWorkers

----------------------------------------------------------------------------
\* backgroundOperation.updateStatus(st, msg)
UpdateStatus(r, st, msg) ==
    [r EXCEPT !.tstatus = st,
              !.late = r.late \/ r.tstatus \in Terminal]

\* Bookkeeping: the first fatal failure that occurs in an attempt.
Fail(r, err) == [r EXCEPT !.firstFail = IF @ = "none" THEN err ELSE @]

Step(r, s) == [r EXCEPT !.steps = @ \cup {s}]

\* The .catch handler of the operation callback in startInstallProcess.
Catch(r, err) ==
    LET u == UpdateStatus(r, "Failed", err)
    IN [u EXCEPT !.tfail = err, !.errShown = TRUE,
                 !.pc = "rejected", !.cleared = @ + 1]

\* reject(err) of installPythonPackage's promise: only the first settlement
\* counts; it makes the awaiting installDependencies throw into the .catch.
Reject(r, err) ==
    IF r.P = "pending" THEN Catch([r EXCEPT !.P = "rejected"], err) ELSE r

\* installDependencies after the package installs: announce completion, then
\* the .then handler of startInstallProcess issues updateConfig.
Announce(r, curPath) ==
    LET u == UpdateStatus(r, "Succeeded", "msgInstallPkgFinish")
    IN [Step(u, "announce") EXCEPT !.pc = "cfg", !.cfgArg = curPath]

\* Mutant: the sparkmagic wheel is installed before the requirements.
AfterPackageSparkFirst(r, pf, curPath) ==
    LET u == UpdateStatus(r, "InProgress", "msgPythonDownloadComplete")
    IN IF pf = winPlatform
       THEN [Step(u, "pip2.begin") EXCEPT !.pc = "pip2"]
       ELSE Announce(u, curPath)

\* installDependencies resumed after `await this.installPythonPackage(..)`:
\* installJupyterProsePackage starts a subprocess on Windows only.
AfterPackage(r, pf, curPath) ==
    LET u == UpdateStatus(r, "InProgress", "msgPythonDownloadComplete")
    IN IF pf = winPlatform
       THEN [Step(u, "pip1.begin") EXCEPT !.pc = "pip1"]
       ELSE Announce(u, curPath)

\* resolve() of installPythonPackage's promise.
Resolve(r, pf, curPath) ==
    IF r.P = "pending"
    THEN AfterPackage([r EXCEPT !.P = "resolved"], pf, curPath)
    ELSE r

\* The guard is cleared exactly when the .then or the .catch handler ran.
GuardAfter(old, new) == IF new.cleared > old.cleared THEN FALSE ELSE installInProgress

----------------------------------------------------------------------------
\* Mutant: the in-progress guard is not tested.
StartInstallGuardsNoPending(isRunning, inProgress) ==
    IF isRunning THEN "rejRunning" ELSE "pass"

\* startInstallProcess, the two pre-flight guards.
StartInstallGuards(isRunning, inProgress) ==
    IF isRunning THEN "rejRunning"
    ELSE IF inProgress THEN "rejPending"
    ELSE "pass"

\* Mutants of the state update of startInstallProcess: the state is updated
\* before the guards are tested; the paths are derived before the new
\* installation path is stored.
StartInstallStateEarly(g, cur, pf, force, path) ==
    LET p == IF path # None THEN path ELSE cur.installationPath
        d == configurePackagePaths(pf, p)
    IN [installInProgress |-> IF g = "pass" THEN TRUE ELSE cur.installInProgress,
        forceInstall |-> force, installationPath |-> p,
        executablePath |-> d.executablePath, binPath |-> d.binPath,
        packageDir |-> d.packageDir, environmentPathVar |-> d.environmentPathVar]

StartInstallStateStale(g, cur, pf, force, path) ==
    IF g # "pass" THEN cur
    ELSE LET p == IF path # None THEN path ELSE cur.installationPath
             d == configurePackagePaths(pf, cur.installationPath)
         IN [installInProgress |-> TRUE, forceInstall |-> force, installationPath |-> p,
             executablePath |-> d.executablePath, binPath |-> d.binPath,
             packageDir |-> d.packageDir, environmentPathVar |-> d.environmentPathVar]

\* startInstallProcess, the state update after the guards (nothing is
\* touched when a guard rejected).
StartInstallState(g, cur, pf, force, path) ==
    IF g # "pass" THEN cur
    ELSE LET p == IF path # None THEN path ELSE cur.installationPath
             d == configurePackagePaths(pf, p)
         IN [installInProgress |-> TRUE, forceInstall |-> force, installationPath |-> p,
             executablePath |-> d.executablePath, binPath |-> d.binPath,
             packageDir |-> d.packageDir, environmentPathVar |-> d.environmentPathVar]

\* Mutant: the install is always run.
InstallNeededAlways(exists, force) == TRUE

\* `!fs.existsSync(this._pythonExecutable) || this._forceInstall`

InstallNeeded(exists, force) == ~exists \/ force

\* Outcomes of fs.open(pythonExePath, 'r+').
OpenOutcomes(p) ==
    IF p \in exeAt THEN {"ok", "EBUSY", "EPERM"} ELSE {"ENOENT"}

isPythonRunning(code) == code \in {"EBUSY", "EPERM"}

----------------------------------------------------------------------------
\* startInstallProcess is called: the argument of isPythonRunning is
\* evaluated and fs.open is issued.  Calls are numbered in the order in
\* which they are issued.
Call(c, force, path) ==
    /\ calls[c].pc = "idle"
    /\ \A d \in Calls : d < c => calls[d].pc # "idle"
    /\ calls' = [calls EXCEPT ![c] =
          [@ EXCEPT !.pc = "open", !.force = force, !.path = path,
                    !.chkPath = IF path # None THEN path ELSE installationPath,
                    !.settledAtIssue = {d \in Calls : Settled(calls[d])}]]
    /\ UNCHANGED <<aux, platform, inst, config, exeAt>>

\* The fs.open callback resolves the running-check; startInstallProcess
\* resumes, runs the guards, updates the state and either registers the
\* background task or starts updateConfig.
OpenDone(c, code) ==
    /\ calls[c].pc = "open"
    /\ code \in OpenOutcomes(calls[c].chkPath)
    /\ LET r == calls[c]
           g == StartInstallGuards(isPythonRunning(code), installInProgress)
           cur == [installInProgress |-> installInProgress, forceInstall |-> forceInstall,
                   installationPath |-> installationPath,
                   executablePath |-> executablePath, binPath |-> binPath,
                   packageDir |-> packageDir, environmentPathVar |-> environmentPathVar]
           nxt == StartInstallState(g, cur, platform, r.force, r.path)
           need == InstallNeeded(ExeExists(nxt.executablePath), nxt.forceInstall)
           r0 == [r EXCEPT !.chkPath = None,
                           !.moved = nxt.installationPath # installationPath,
                           !.heldAtCheck = {d \in Calls : calls[d].passed /\ ~Settled(calls[d])}]
       IN /\ installInProgress' = nxt.installInProgress
          /\ forceInstall' = nxt.forceInstall
          /\ installationPath' = nxt.installationPath
          /\ executablePath' = nxt.executablePath
          /\ binPath' = nxt.binPath
          /\ packageDir' = nxt.packageDir
          /\ environmentPathVar' = nxt.environmentPathVar
          /\ calls' = [calls EXCEPT ![c] =
                IF g # "pass" THEN [r0 EXCEPT !.pc = g]
                ELSE IF need
                THEN [r0 EXCEPT !.pc = "scheduled", !.passed = TRUE, !.tstatus = "Created",
                                !.force = FALSE, !.path = None]
                ELSE [r0 EXCEPT !.pc = "skipCfg", !.passed = TRUE, !.skip = TRUE,
                                !.cfgArg = nxt.installationPath,
                                !.force = FALSE, !.path = None]]
    /\ UNCHANGED <<aux, platform, config, exeAt>>

\* The host runs the operation callback: installDependencies re-tests the
\* condition; installPythonPackage announces the download and issues mkdirs.
RunOperation(c) ==
    /\ calls[c].pc = "scheduled"
    /\ LET r == calls[c]
       IN calls' = [calls EXCEPT ![c] =
            IF InstallNeeded(ExeExists(executablePath), forceInstall)
            THEN LET u1 == UpdateStatus(r, "InProgress", "msgInstallPkgProgress")
                     u2 == UpdateStatus(u1, "InProgress", "msgDownloadPython")
                 IN [Step(u2, "mkdirs.begin") EXCEPT
                        !.pc = "pipeline", !.pipe = "mkdirs", !.P = "pending"]
            ELSE [r EXCEPT !.pc = "cfg", !.cfgArg = installationPath]]
    /\ UNCHANGED <<aux, platform, inst, config, exeAt>>

\* fs.mkdirs callback: an error rejects but does not return, so the request
\* is issued in both cases.
MkdirsDone(c, ok) ==
    /\ calls[c].pipe = "mkdirs"
    /\ LET r == Step(calls[c], "mkdirs.end")
           r1 == IF ok THEN r
                 ELSE Reject(UpdateStatus(Fail(r, "mkdir"), "InProgress", "msgPythonDirectoryError"),
                             "mkdir")
           r2 == [Step(r1, "download.begin") EXCEPT !.pipe = "request"]
       IN /\ calls' = [calls EXCEPT ![c] = r2]
          /\ installInProgress' = GuardAfter(calls[c], r2)
    /\ UNCHANGED <<aux, platform, installationPath, forceInstall, executablePath, binPath,
                   packageDir, environmentPathVar, config, exeAt>>

\* 'error' of the request (transport error); no further event is delivered.
RequestError(c) ==
    /\ calls[c].pipe \in {"request", "streaming"}
    /\ LET r == calls[c]
           r1 == Reject(UpdateStatus(Fail(r, "transport"), "InProgress", "msgPythonDownloadError"),
                        "transport")
           r2 == [Step(r1, "download.failed") EXCEPT !.pipe = "dead"]
       IN /\ calls' = [calls EXCEPT ![c] = r2]
          /\ installInProgress' = GuardAfter(calls[c], r2)
    /\ UNCHANGED <<aux, platform, installationPath, forceInstall, executablePath, binPath,
                   packageDir, environmentPathVar, config, exeAt>>

\* 'response': a status other than 200 rejects but does not return; the body
\* keeps streaming into the file.
Response(c, code) ==
    /\ calls[c].pipe = "request"
    /\ LET r == [calls[c] EXCEPT !.http = code]
           r1 == IF code = OkHttp THEN r
                 ELSE Reject(UpdateStatus(Fail(r, "http"), "InProgress", "msgPythonDownloadError"),
                             "http")
           r2 == [r1 EXCEPT !.pipe = "streaming"]
       IN /\ calls' = [calls EXCEPT ![c] = r2]
          /\ installInProgress' = GuardAfter(calls[c], r2)
    /\ UNCHANGED <<aux, platform, installationPath, forceInstall, executablePath, binPath,
                   packageDir, environmentPathVar, config, exeAt>>

\* 'error' of the file write stream.
StreamError(c) ==
    /\ calls[c].pipe \in {"request", "streaming"}
    /\ LET r == calls[c]
           r1 == Reject(UpdateStatus(Fail(r, "write"), "InProgress", "msgPythonDownloadError"),
                        "write")
           r2 == [Step(r1, "download.failed") EXCEPT !.pipe = "dead"]
       IN /\ calls' = [calls EXCEPT ![c] = r2]
          /\ installInProgress' = GuardAfter(calls[c], r2)
    /\ UNCHANGED <<aux, platform, installationPath, forceInstall, executablePath, binPath,
                   packageDir, environmentPathVar, config, exeAt>>

\* 'close' of the write stream: the unpack step.  A failing removal of the
\* stale copy rejects but does not return, decompress is called regardless.
StreamClose(c, rmOk) ==
    /\ calls[c].pipe = "streaming"
    /\ LET stale == installationPath \in exeAt
           r == Step(Step(calls[c], "download.end"), "unpack.begin")
           r1 == IF ~stale THEN r
                 ELSE IF rmOk THEN Step(r, "rmstale")
                 ELSE Reject(UpdateStatus(Fail(Step(r, "rmstale"), "rmstale"),
                                          "InProgress", "msgPythonUnpackError"),
                             "rmstale")
           r2 == [Step(r1, "decompress.begin") EXCEPT !.pipe = "decompress",
                                                      !.dest = installationPath]
       IN /\ stale \/ rmOk
          /\ calls' = [calls EXCEPT ![c] = r2]
          /\ installInProgress' = GuardAfter(calls[c], r2)
          /\ exeAt' = IF stale /\ rmOk THEN exeAt \ {installationPath} ELSE exeAt
    /\ UNCHANGED <<aux, platform, installationPath, forceInstall, executablePath, binPath,
                   packageDir, environmentPathVar, config>>

\* decompress settles.  On success the archive deletion is issued and
\* resolve() is called without waiting for it.
DecompressDone(c, ok) ==
    /\ calls[c].pipe = "decompress"
    /\ LET r == calls[c]
           r1 == IF ok
                 THEN [Resolve(Step(Step(r, "decompress.end"), "unlink.begin"),
                               platform, installationPath)
                          EXCEPT !.pipe = "unlink", !.dest = None]
                 ELSE [Reject(UpdateStatus(Fail(Step(r, "decompress.failed"), "decompress"),
                                           "InProgress", "msgPythonUnpackError"),
                              "decompress")
                          EXCEPT !.pipe = "done", !.dest = None]
           extracted == ok /\ r.http = OkHttp
       IN /\ calls' = [calls EXCEPT ![c] = r1]
          /\ installInProgress' = GuardAfter(calls[c], r1)
          /\ exeAt' = IF extracted THEN exeAt \cup {r.dest} ELSE exeAt
    /\ UNCHANGED <<aux, platform, installationPath, forceInstall, executablePath, binPath,
                   packageDir, environmentPathVar, config>>

\* fs.unlink callback of the archive deletion.
UnlinkDone(c, ok) ==
    /\ calls[c].pipe = "unlink"
    /\ LET r == Step(calls[c], "unlink.end")
           r1 == IF ok THEN r
                 ELSE Reject(UpdateStatus(Fail(r, "unlink"), "InProgress", "msgPythonUnpackError"),
                             "unlink")
           r2 == [r1 EXCEPT !.pipe = "done"]
       IN /\ calls' = [calls EXCEPT ![c] = r2]
          /\ installInProgress' = GuardAfter(calls[c], r2)
    /\ UNCHANGED <<aux, platform, installationPath, forceInstall, executablePath, binPath,
                   packageDir, environmentPathVar, config, exeAt>>

\* The subprocess of installJupyterProsePackage exits, installSparkMagic follows.
AfterRequirements(r, curPath) == [Step(r, "pip2.begin") EXCEPT !.pc = "pip2"]

\* utils.executeStreamedCommand: the promise resolves exactly on exit code 0.
ExitCodes == {0, 1}
executeStreamedCommand(exitCode) == exitCode = 0

\* Variant of Pip1Done that goes on to sparkmagic whatever the exit code.
Pip1DoneIgnoreExit(c, ok) ==
    /\ calls[c].pc = "pip1"
    /\ LET r == calls[c]
           r1 == AfterRequirements(Step(r, IF ok THEN "pip1.end" ELSE "pip1.failed"),
                                   installationPath)
       IN /\ calls' = [calls EXCEPT ![c] = r1]
          /\ installInProgress' = GuardAfter(calls[c], r1)
    /\ UNCHANGED <<aux, platform, installationPath, forceInstall, executablePath, binPath,
                   packageDir, environmentPathVar, config, exeAt>>

Pip1Done(c, ok) ==
    /\ calls[c].pc = "pip1"
    /\ LET r == calls[c]
           r1 == IF ok THEN AfterRequirements(Step(r, "pip1.end"), installationPath)
                 ELSE Catch(Fail(Step(r, "pip1.failed"), "pip1"), "pip1")
       IN /\ calls' = [calls EXCEPT ![c] = r1]
          /\ installInProgress' = GuardAfter(calls[c], r1)
    /\ UNCHANGED <<aux, platform, installationPath, forceInstall, executablePath, binPath,
                   packageDir, environmentPathVar, config, exeAt>>

\* The subprocess of installSparkMagic exits.
Pip2Done(c, ok) ==
    /\ calls[c].pc = "pip2"
    /\ LET r == calls[c]
           r1 == IF ok THEN Announce(Step(r, "pip2.end"), installationPath)
                 ELSE Catch(Fail(Step(r, "pip2.failed"), "pip2"), "pip2")
       IN /\ calls' = [calls EXCEPT ![c] = r1]
          /\ installInProgress' = GuardAfter(calls[c], r1)
    /\ UNCHANGED <<aux, platform, installationPath, forceInstall, executablePath, binPath,
                   packageDir, environmentPathVar, config, exeAt>>

\* Variant of updateConfig whose failed update has stored the value already.
updateConfigStoresOnFailure(ok, value, stored) == value

\* updateConfig: the value under notebook.pythonPath once notebookConfig.update
\* has settled; a rejected update leaves the stored value.
updateConfig(ok, value, stored) == IF ok THEN value ELSE stored

\* notebookConfig.update settles in the .then handler of the operation: on
\* success the promise resolves and the guard is cleared, a failure falls
\* into the .catch handler.
ConfigDone(c, ok) ==
    /\ calls[c].pc = "cfg"
    /\ LET r == calls[c]
           r1 == IF ok THEN [r EXCEPT !.pc = "resolved", !.cleared = @ + 1]
                 ELSE Catch(r, "config")
       IN /\ calls' = [calls EXCEPT ![c] = [r1 EXCEPT !.cfgArg = None]]
          /\ installInProgress' = GuardAfter(calls[c], r1)
          /\ config' = updateConfig(ok, r.cfgArg, config)
    /\ UNCHANGED <<aux, platform, installationPath, forceInstall, executablePath, binPath,
                   packageDir, environmentPathVar, exeAt>>

\* notebookConfig.update settles in the else branch of startInstallProcess:
\* the promise resolves (or the async function throws); the guard is not touched.
SkipConfigDone(c, ok) ==
    /\ calls[c].pc = "skipCfg"
    /\ calls' = [calls EXCEPT ![c] = [@ EXCEPT !.pc = IF ok THEN "resolved" ELSE "rejected",
                                                !.cfgArg = None]]
    /\ config' = updateConfig(ok, calls[c].cfgArg, config)
    /\ UNCHANGED <<aux, platform, inst, exeAt>>

Next ==
    \/ \E c \in Calls, force \in BOOLEAN, path \in UserPaths \cup {None} : Call(c, force, path)
    \/ \E c \in Calls, code \in {"ok", "EBUSY", "EPERM", "ENOENT"} : OpenDone(c, code)
    \/ \E c \in Calls : RunOperation(c)
    \/ \E c \in Calls, ok \in BOOLEAN : MkdirsDone(c, ok)
    \/ \E c \in Calls : RequestError(c)
    \/ \E c \in Calls, code \in HttpCodes : Response(c, code)
    \/ \E c \in Calls : StreamError(c)
    \/ \E c \in Calls, rmOk \in BOOLEAN : StreamClose(c, rmOk)
    \/ \E c \in Calls, ok \in BOOLEAN : DecompressDone(c, ok)
    \/ \E c \in Calls, ok \in BOOLEAN : UnlinkDone(c, ok)
    \/ \E c \in Calls, exit \in ExitCodes : Pip1Done(c, executeStreamedCommand(exit))
    \/ \E c \in Calls, exit \in ExitCodes : Pip2Done(c, executeStreamedCommand(exit))
    \/ \E c \in Calls, ok \in BOOLEAN : ConfigDone(c, ok)
    \/ \E c \in Calls, ok \in BOOLEAN : SkipConfigDone(c, ok)

Spec == Init /\ [][Next]_vars

----------------------------------------------------------------------------
\* The static query isPythonInstalled, over every configuration store and
\* file system an instance can meet.  dirAt holds the roots that exist as
\* directories; an extracted copy exists only under an existing root.

InitInstalled ==
    /\ platform \in Platforms
    /\ exeAt \in SUBSET Roots
    /\ config \in Roots \cup {None}
    /\ installationPath \in Roots
    /\ forceInstall = FALSE
    /\ installInProgress = FALSE
    /\ LET d == configurePackagePaths(platform, installationPath)
       IN /\ executablePath = d.executablePath
          /\ binPath = d.binPath
          /\ packageDir = d.packageDir
          /\ environmentPathVar = d.environmentPathVar
    /\ calls = [c \in Calls |-> NewCall]
    /\ \E dirs \in {d \in SUBSET Roots : exeAt \subseteq d} :
          probe = [dirAt |-> dirs, installed |-> "unknown"]
    /\ dl = NoDownload
    /\ envs = NoEnvs
    /\ ww = NoWorkers

IsPythonInstalled ==
    /\ probe.installed = "unknown"
    /\ probe' = [probe EXCEPT !.installed =
                     IF isPythonInstalled(config, probe.dirAt) THEN "yes" ELSE "no"]
    /\ UNCHANGED <<platform, inst, config, exeAt, calls, dl, envs, ww>>

NextInstalled == IsPythonInstalled

SpecInstalled == InitInstalled /\ [][NextInstalled]_vars

----------------------------------------------------------------------------
\* The progress report of one download: the locals declared in the fs.mkdirs
\* callback and the 'response' and 'data' handlers that use them.  Sizes are
\* kept in bytes: totalMegaBytes and receivedMegaBytes are the byte counts
\* divided by 2^20, which is exact and cancels in their quotient.
\* printThreshold counts tenths: the value k stands for the double obtained
\* by adding 0.1 to itself k - 1 times.

\* parseInt of the content-length header; an absent header gives NaN.
ContentLengths ==
    {[present |-> FALSE, value |-> 0]}
        \cup {[present |-> TRUE, value |-> n] : n \in 0..MaxTotal}
parseInt(header) ==
    IF header.present THEN [kind |-> "number", bytes |-> header.value]
    ELSE [kind |-> "NaN", bytes |-> 0]

\* Truthiness of totalMegaBytes: undefined, NaN and 0 are falsy.
Truthy(total) == total.kind = "number" /\ total.bytes # 0

\* The accumulated sum of k times 0.1 lies above the double nearest to k/10
\* for k = 3 and from k = 14 on, and at or below it otherwise (IEEE 754
\* doubles, k < 40).
RoundedUp(k) == k = 3 \/ k >= 14

\* percentage >= printThreshold, for percentage = received / total in doubles.
ThresholdReached(received, total, k) ==
    IF 10 * received = k * total THEN ~RoundedUp(k) ELSE 10 * received > k * total

\* Variant of ProgressDue that reports every chunk.
ProgressDueAlways(total, received, k) == TRUE

\* The two tests of the 'data' handler that guard the progress line.
ProgressDue(total, received, k) ==
    Truthy(total) /\ ThresholdReached(received, total.bytes, k)

InitDownload ==
    /\ platform \in Platforms
    /\ exeAt \in SUBSET Roots
    /\ config \in UserPaths \cup {None}
    /\ \E pythonInstallationPath \in UserPaths \cup {None},
          dirs \in {d \in SUBSET Roots : exeAt \subseteq d} :
          installationPath = IF pythonInstallationPath # None
                             THEN pythonInstallationPath
                             ELSE getPythonInstallPath(config, dirs)
    /\ forceInstall = FALSE
    /\ installInProgress = FALSE
    /\ LET d == configurePackagePaths(platform, installationPath)
       IN /\ executablePath = d.executablePath
          /\ binPath = d.binPath
          /\ packageDir = d.packageDir
          /\ environmentPathVar = d.environmentPathVar
    /\ calls = [c \in Calls |-> NewCall]
    /\ probe = NoProbe
    /\ dl = [NoDownload EXCEPT !.phase = "request"]
    /\ envs = NoEnvs
    /\ ww = NoWorkers

\* 'response'
OnResponse(header) ==
    /\ dl.phase = "request"
    /\ dl' = [dl EXCEPT !.phase = "streaming", !.totalMegaBytes = parseInt(header)]
    /\ UNCHANGED <<platform, inst, config, exeAt, calls, probe, envs, ww>>

\* 'data'
OnData(length) ==
    /\ dl.phase = "streaming"
    /\ dl.receivedBytes + length <= MaxReceived
    /\ LET receivedBytes == dl.receivedBytes + length
       IN dl' = IF ProgressDue(dl.totalMegaBytes, receivedBytes, dl.printThreshold)
                THEN [dl EXCEPT !.receivedBytes = receivedBytes,
                                !.lines = @ + 1,
                                !.printThreshold = @ + 1]
                ELSE [dl EXCEPT !.receivedBytes = receivedBytes]
    /\ UNCHANGED <<platform, inst, config, exeAt, calls, probe, envs, ww>>

\* 'close' of the write stream
OnClose ==
    /\ dl.phase = "streaming"
    /\ dl' = [dl EXCEPT !.phase = "closed"]
    /\ UNCHANGED <<platform, inst, config, exeAt, calls, probe, envs, ww>>

\* 'error' of the request or of the write stream
OnError ==
    /\ dl.phase \in {"request", "streaming"}
    /\ dl' = [dl EXCEPT !.phase = "failed"]
    /\ UNCHANGED <<platform, inst, config, exeAt, calls, probe, envs, ww>>

NextDownload ==
    \/ \E header \in ContentLengths : OnResponse(header)
    \/ \E length \in 1..MaxChunk : OnData(length)
    \/ OnClose
    \/ OnError

SpecDownload == InitDownload /\ [][NextDownload]_vars

----------------------------------------------------------------------------
\* configurePackagePaths and the environments: process.env (ambient) and the
\* copy handed to child processes in execOptions.env.  An environment maps
\* each name to its value, None when the variable is not set; a value is a
\* list of entries.  On Windows the names of process.env are not case
\* sensitive, so PATH and Path name the same variable there; the properties
\* of a plain object, such as the copy, always are.

PythonVars == {"PYTHONPATH", "PYTHONSTARTUP", "PYTHONHOME"}
EnvKeys == {"PATH", "Path", "HOME"} \cup PythonVars

\* The environments a process can start with.
AmbientEnvs(pf) ==
    {e \in [EnvKeys -> {None, <<AmbientPath>>}] :
        pf = winPlatform => (e["PATH"] = None \/ e["Path"] = None)}

\* process.env['PATH']
ReadPath(pf, e) ==
    IF pf = winPlatform /\ e["PATH"] = None THEN e["Path"] ELSE e["PATH"]

\* String concatenation with a value that may be undefined.
Entries(value) == IF value = None THEN <<<<"undefined">>>> ELSE value

\* Variant of configureEnvironment that stores the search path in process.env.
configureEnvironmentAmbient(pf, p, e) ==
    LET pythonSourcePath == PathJoin(p, <<bundleVersion>>)
        bin == PathJoin(pythonSourcePath, IF pf = winPlatform THEN <<>> ELSE <<"bin">>)
        env1 == IF pf = winPlatform
                THEN <<PathJoin(pythonSourcePath, <<"Scripts">>)>> \o Entries(ReadPath(pf, e))
                ELSE Entries(ReadPath(pf, e))
        pythonEnvVarPath == <<bin>> \o env1
        ambient == [k \in EnvKeys |->
                       IF k \in PythonVars THEN None
                       ELSE IF k = "PATH" THEN pythonEnvVarPath
                       ELSE IF k = "Path" /\ pf = winPlatform THEN None
                       ELSE e[k]]
    IN [pythonEnvVarPath |-> pythonEnvVarPath,
        processEnv |-> ambient,
        execOptions |-> [ambient EXCEPT !["Path"] = None]]

\* The second half of configurePackagePaths: the search path is built from
\* process.env['PATH'], the three Python variables are deleted from
\* process.env, and execOptions.env is a copy of process.env without Path
\* and with PATH set to the search path.
configureEnvironment(pf, p, e) ==
    LET pythonSourcePath == PathJoin(p, <<bundleVersion>>)
        bin == PathJoin(pythonSourcePath, IF pf = winPlatform THEN <<>> ELSE <<"bin">>)
        env1 == IF pf = winPlatform
                THEN <<PathJoin(pythonSourcePath, <<"Scripts">>)>> \o Entries(ReadPath(pf, e))
                ELSE Entries(ReadPath(pf, e))
        pythonEnvVarPath == <<bin>> \o env1
        ambient == [k \in EnvKeys |-> IF k \in PythonVars THEN None ELSE e[k]]
        copy == [ambient EXCEPT !["Path"] = None]
    IN [pythonEnvVarPath |-> pythonEnvVarPath,
        processEnv |-> ambient,
        execOptions |-> [copy EXCEPT !["PATH"] = pythonEnvVarPath]]

\* The instance right after its constructor, in any starting environment.
InitEnv ==
    /\ platform \in Platforms
    /\ exeAt \in SUBSET Roots
    /\ config \in UserPaths \cup {None}
    /\ \E pythonInstallationPath \in UserPaths \cup {None},
          dirs \in {d \in SUBSET Roots : exeAt \subseteq d} :
          installationPath = IF pythonInstallationPath # None
                             THEN pythonInstallationPath
                             ELSE getPythonInstallPath(config, dirs)
    /\ forceInstall = FALSE
    /\ installInProgress = FALSE
    /\ \E e \in AmbientEnvs(platform) :
          LET d == configurePackagePaths(platform, installationPath)
              v == configureEnvironment(platform, installationPath, e)
          IN /\ executablePath = d.executablePath
             /\ binPath = d.binPath
             /\ packageDir = d.packageDir
             /\ environmentPathVar = v.pythonEnvVarPath
             /\ envs = [processEnv |-> v.processEnv, execOptions |-> v.execOptions,
                        count |-> 0]
    /\ calls = [c \in Calls |-> NewCall]
    /\ probe = NoProbe
    /\ dl = NoDownload
    /\ ww = NoWorkers

\* The state update of startInstallProcess (lines 261-267): the path, when
\* one is given, and configurePackagePaths.
Reconfigure(force, path) ==
    /\ envs.count < MaxReconfigure
    /\ LET p == IF path # None THEN path ELSE installationPath
           d == configurePackagePaths(platform, p)
           v == configureEnvironment(platform, p, envs.processEnv)
       IN /\ installationPath' = p
          /\ forceInstall' = force
          /\ executablePath' = d.executablePath
          /\ binPath' = d.binPath
          /\ packageDir' = d.packageDir
          /\ environmentPathVar' = v.pythonEnvVarPath
          /\ envs' = [processEnv |-> v.processEnv, execOptions |-> v.execOptions,
                      count |-> envs.count + 1]
    /\ UNCHANGED <<platform, installInProgress, config, exeAt, calls, probe, dl, ww>>

NextEnv == \E force \in BOOLEAN, path \in UserPaths \cup {None} : Reconfigure(force, path)

SpecEnv == InitEnv /\ [][NextEnv]_vars

----------------------------------------------------------------------------
\* The web worker factory.  A WebWorker keeps a promise of the underlying
\* worker; every use of the worker is a callback registered with then, and a
\* promise runs its callbacks in the order of registration, one per step
\* here.  Messages are numbered: the module id is message 0, the k-th
\* postMessage call on a WebWorker carries k.

ModuleMsg == 0

\* What getWorker gives: a worker, a promise of one, or an exception.
GetWorkerOutcomes == {"worker", "promise", "throws"}

\* this.postMessage(msg) of a WebWorker
WebWorkerPost(w, msg) ==
    IF w.worker # "null"
    THEN [w EXCEPT !.thens = Append(@, [op |-> "post", msg |-> msg])]
    ELSE w

\* new WebWorker(moduleId, id, ..): the promise, the module id, the handlers.
NewWebWorker(f, id, outcome) ==
    LET w0 == [factory |-> f, id |-> id,
               worker |-> "promise",
               promise |-> IF outcome = "worker" THEN "resolved" ELSE "pending",
               thens |-> <<>>,
               posted |-> <<>>, attached |-> FALSE, terminated |-> 0,
               calls |-> <<>>,       \* postMessage calls: message, made after dispose()
               disposed |-> 0]       \* number of dispose() calls
        w1 == WebWorkerPost(w0, ModuleMsg)
    IN [w1 EXCEPT !.thens = Append(@, [op |-> "attach", msg |-> ModuleMsg])]

\* Variant of WebWorkerDispose that keeps the promise.
WebWorkerDisposeKeepsWorker(w) ==
    [w EXCEPT !.thens = Append(@, [op |-> "terminate", msg |-> ModuleMsg]),
              !.disposed = @ + 1]

\* dispose() of a WebWorker
WebWorkerDispose(w) ==
    LET w1 == IF w.worker # "null"
              THEN [w EXCEPT !.thens = Append(@, [op |-> "terminate", msg |-> ModuleMsg])]
              ELSE w
    IN [w1 EXCEPT !.worker = "null", !.disposed = @ + 1]

\* Variant of CreateThrows that never stops a create().
CreateThrowsNever(flag) == FALSE

\* `if (this._webWorkerFailedBeforeError)`
CreateThrows(flag) == flag # NoError

\* postMessage and dispose calls made so far, over the first n workers.
RECURSIVE PostCalls(_)
PostCalls(n) == IF n = 0 THEN 0 ELSE Len(ww.workers[n].calls) + PostCalls(n - 1)
RECURSIVE DisposeCalls(_)
DisposeCalls(n) == IF n = 0 THEN 0 ELSE ww.workers[n].disposed + DisposeCalls(n - 1)

InitWorker ==
    /\ platform = "linux"
    /\ exeAt = {}
    /\ config = None
    /\ installationPath = DefaultPythonLocation
    /\ forceInstall = FALSE
    /\ installInProgress = FALSE
    /\ LET d == configurePackagePaths(platform, installationPath)
       IN /\ executablePath = d.executablePath
          /\ binPath = d.binPath
          /\ packageDir = d.packageDir
          /\ environmentPathVar = d.environmentPathVar
    /\ calls = [c \in Calls |-> NewCall]
    /\ probe = NoProbe
    /\ dl = NoDownload
    /\ envs = NoEnvs
    /\ ww = NoWorkers

\* DefaultWorkerFactory.create
Create(f, outcome) ==
    /\ ww.LAST_WORKER_ID < MaxCreates
    /\ LET workerId == ww.LAST_WORKER_ID + 1
       IN IF CreateThrows(ww.failed[f])
          THEN ww' = [ww EXCEPT !.LAST_WORKER_ID = workerId,
                                !.lastCreate = [factory |-> f, result |-> "threw",
                                                error |-> ww.failed[f]]]
          ELSE IF outcome = "throws"
          THEN ww' = [ww EXCEPT !.LAST_WORKER_ID = workerId,
                                !.lastCreate = [factory |-> f, result |-> "threw",
                                                error |-> "getWorker"]]
          ELSE /\ Len(ww.workers) < MaxWorkers
               /\ ww' = [ww EXCEPT !.LAST_WORKER_ID = workerId,
                                   !.workers = Append(@, NewWebWorker(f, workerId, outcome)),
                                   !.lastCreate = [factory |-> f, result |-> "worker",
                                                   error |-> NoError]]
    /\ UNCHANGED <<platform, inst, config, exeAt, calls, probe, dl, envs>>

\* The promise given by getWorker settles.
PromiseSettles(i, ok) ==
    /\ i \in DOMAIN ww.workers
    /\ ww.workers[i].promise = "pending"
    /\ ww' = [ww EXCEPT !.workers[i].promise = IF ok THEN "resolved" ELSE "rejected"]
    /\ UNCHANGED <<platform, inst, config, exeAt, calls, probe, dl, envs>>

\* The next callback registered with then runs on the underlying worker.
RunThen(i) ==
    /\ i \in DOMAIN ww.workers
    /\ ww.workers[i].promise = "resolved"
    /\ ww.workers[i].thens # <<>>
    /\ LET w == ww.workers[i]
           cb == Head(w.thens)
           w1 == [w EXCEPT !.thens = Tail(@)]
       IN ww' = [ww EXCEPT !.workers[i] =
                    IF cb.op = "post" THEN [w1 EXCEPT !.posted = Append(@, cb.msg)]
                    ELSE IF cb.op = "attach" THEN [w1 EXCEPT !.attached = TRUE]
                    ELSE [w1 EXCEPT !.terminated = @ + 1]]
    /\ UNCHANGED <<platform, inst, config, exeAt, calls, probe, dl, envs>>

\* postMessage on the IWorker returned by create
PostMessage(i) ==
    /\ i \in DOMAIN ww.workers
    /\ PostCalls(Len(ww.workers)) < MaxPosts
    /\ LET w == ww.workers[i]
           msg == Len(w.calls) + 1
           w1 == WebWorkerPost(w, msg)
       IN ww' = [ww EXCEPT !.workers[i] =
                    [w1 EXCEPT !.calls = Append(@, [msg |-> msg, late |-> w.disposed > 0])]]
    /\ UNCHANGED <<platform, inst, config, exeAt, calls, probe, dl, envs>>

\* dispose on the IWorker returned by create
Dispose(i) ==
    /\ i \in DOMAIN ww.workers
    /\ DisposeCalls(Len(ww.workers)) < MaxDisposes
    /\ ww' = [ww EXCEPT !.workers[i] = WebWorkerDispose(@)]
    /\ UNCHANGED <<platform, inst, config, exeAt, calls, probe, dl, envs>>

\* An 'error' or 'messageerror' event of the underlying worker: the handler
\* given by the factory records the error and calls the caller's callback.
WorkerError(i, err) ==
    /\ i \in DOMAIN ww.workers
    /\ ww.workers[i].attached
    /\ ww.workers[i].terminated = 0
    /\ Len(ww.fired) < MaxErrors
    /\ LET f == ww.workers[i].factory
       IN ww' = [ww EXCEPT !.failed[f] = err,
                           !.fired = Append(@, <<i, err>>),
                           !.notified = Append(@, <<f, err>>)]
    /\ UNCHANGED <<platform, inst, config, exeAt, calls, probe, dl, envs>>

NextWorker ==
    \/ \E f \in Factories, outcome \in GetWorkerOutcomes : Create(f, outcome)
    \/ \E i \in 1..MaxWorkers, ok \in BOOLEAN : PromiseSettles(i, ok)
    \/ \E i \in 1..MaxWorkers : RunThen(i)
    \/ \E i \in 1..MaxWorkers : PostMessage(i)
    \/ \E i \in 1..MaxWorkers : Dispose(i)
    \/ \E i \in 1..MaxWorkers, err \in Errors : WorkerError(i, err)

SpecWorker == InitWorker /\ [][NextWorker]_vars

----------------------------------------------------------------------------
\* Vocabulary of the properties.

Issued(r) == r.pc # "idle"
PastGuards(r) == r.pc \notin {"idle", "open"}

\* Some step of the attempt's pipeline is still executing.
PipelineActive(r) ==
    \/ r.pipe \in {"mkdirs", "request", "streaming", "decompress", "unlink"}
    \/ r.pc \in {"pip1", "pip2"}

\* Each of the two calls was issued before the other one settled.
Overlap(c, d) ==
    /\ c # d /\ Issued(calls[c]) /\ Issued(calls[d])
    /\ d \notin calls[c].settledAtIssue
    /\ c \notin calls[d].settledAtIssue

----------------------------------------------------------------------------
\* C1 (as stated): of two overlapping calls that both pass the running-check
\* and need an install, exactly one sets the guard and runs the pipeline and
\* the other is rejected with InstallAlreadyInProgress.
Orig_C1 ==
    \A c, d \in Calls :
        (/\ Overlap(c, d)
         /\ PastGuards(calls[c]) /\ PastGuards(calls[d])
         /\ calls[c].pc # "rejRunning" /\ calls[d].pc # "rejRunning"
         /\ ~calls[c].skip /\ ~calls[d].skip)
        => \/ calls[c].passed /\ calls[d].pc = "rejPending"
           \/ calls[d].passed /\ calls[c].pc = "rejPending"

\* C1 (amended): a call whose running-check reports "not running" while
\* another call has set the guard and has not settled yet is rejected with
\* InstallAlreadyInProgress, sets no guard and starts no task or pipeline;
\* two unsettled calls never both hold the guard.
Thm_C1 ==
    /\ \A c \in Calls :
          (PastGuards(calls[c]) /\ calls[c].pc # "rejRunning" /\ calls[c].heldAtCheck # {})
          => /\ calls[c].pc = "rejPending"
             /\ ~calls[c].passed
             /\ calls[c].tstatus = "None"
             /\ calls[c].pipe = "idle"
    /\ Cardinality({c \in Calls : calls[c].passed /\ ~Settled(calls[c])}) <= 1

Wit_C1 ==
    \E c, d \in Calls :
        /\ Overlap(c, d)
        /\ d \in calls[c].heldAtCheck
        /\ calls[c].pc = "rejPending"
        /\ calls[d].tstatus # "None"

\* C2 (as stated): when a call that passed both guards settles, the guard is
\* false again and that call has cleared it exactly once.
Orig_C2 ==
    [][\A c \in Calls :
          (calls[c].passed /\ ~Settled(calls[c]) /\ Settled(calls'[c]))
          => (installInProgress' = FALSE /\ calls'[c].cleared = 1)]_vars

\* C3 (as stated): at most one attempt has pipeline steps still executing.
Orig_C3 == Cardinality({c \in Calls : PipelineActive(calls[c])}) <= 1

\* C4 (as stated): after a response with a status other than 200 the unpack
\* step never runs and the task ends as Failed.  Stated for the attempts in
\* which that response is the first failure.
Orig_C4 ==
    \A c \in Calls :
        (calls[c].http \notin {0, OkHttp} /\ calls[c].firstFail = "http")
        => /\ "unpack.begin" \notin calls[c].steps
           /\ Quiescent(calls[c]) => calls[c].tstatus = "Failed"

\* C5: a call that passes the guards with forceInstall = false while the
\* executable exists takes the skip branch; a call on the skip branch has no
\* task and no pipeline step, and when it resolves the configuration store
\* holds the current installation path.
Thm_C5 ==
    [][\A c \in Calls :
          /\ (calls[c].pc = "open" /\ calls'[c].passed
                /\ ~forceInstall' /\ ExeExists(executablePath'))
             => calls'[c].pc = "skipCfg"
          /\ (calls[c].pc = "skipCfg" /\ calls'[c].pc = "resolved")
             => config' = installationPath'
          /\ calls'[c].skip
             => /\ calls'[c].tstatus = "None"
                /\ calls'[c].steps = {}
                /\ calls'[c].pipe = "idle"
                /\ calls'[c].P = "none"]_vars

Wit_C5 ==
    \E c \in Calls :
        /\ calls[c].skip /\ calls[c].pc = "resolved"
        /\ ~forceInstall /\ ExeExists(executablePath)
        /\ config = installationPath

\* C6 (as stated): once the attempt is over, the promise resolved only if the
\* task ended as Succeeded, and it rejected if and only if the task ended as Failed.
Orig_C6 ==
    \A c \in Calls :
        (calls[c].tstatus # "None" /\ Quiescent(calls[c]))
        => /\ calls[c].pc = "resolved" => calls[c].tstatus = "Succeeded"
           /\ calls[c].pc = "rejected" <=> calls[c].tstatus = "Failed"

\* C7 (as stated): a fatal pipeline failure sets the task to Failed with a
\* message embedding that error, shows an error notification, rejects the
\* promise and clears the guard.
Orig_C7 ==
    \A c \in Calls :
        calls[c].firstFail # "none"
        => /\ calls[c].tfail = calls[c].firstFail
           /\ calls[c].errShown
           /\ calls[c].pc = "rejected"
           /\ calls[c].cleared = 1

\* C8: issuing a call, and rejecting it by a pre-flight guard, leave the
\* installation path, forceInstall, the guard, the derived paths and the
\* configuration store unchanged; a rejected call has no background task.
Thm_C8 ==
    [][\A c \in Calls :
          /\ (calls[c].pc = "idle" /\ calls'[c].pc = "open")
             => UNCHANGED <<inst, config>>
          /\ (calls[c].pc = "open" /\ calls'[c].pc \in {"rejRunning", "rejPending"})
             => UNCHANGED <<inst, config>>
          /\ calls'[c].pc \in {"rejRunning", "rejPending"}
             => /\ calls'[c].tstatus = "None"
                /\ ~calls'[c].passed
                /\ calls'[c].pipe = "idle"]_vars

Wit_C8 ==
    \E c \in Calls :
        /\ calls[c].pc = "rejPending"
        /\ calls[c].heldAtCheck # {}
        /\ calls[c].force # forceInstall
        /\ calls[c].path # None /\ calls[c].path # installationPath

Thm_C10 ==
    LET src == installationPath \o <<bundleVersion>> IN
    /\ executablePath = src \o (IF platform = winPlatform
                                THEN <<"python.exe">> ELSE <<"bin", "python3">>)
    /\ binPath = (IF platform = winPlatform THEN src ELSE src \o <<"bin">>)
    /\ packageDir = src \o <<"offlinePackages">>
    /\ environmentPathVar = (IF platform = winPlatform
                             THEN <<src, src \o <<"Scripts">>, AmbientPath>>
                             ELSE <<src \o <<"bin">>, AmbientPath>>)

Wit_C10 ==
    \E c \in Calls :
        /\ calls[c].moved /\ Settled(calls[c])
        /\ installationPath \in UserPaths

\* C11 (as stated): on Windows the search path lists the Scripts directory
\* first, then binPath, then the inherited PATH; elsewhere it lists the bin
\* directory and then the inherited PATH.
Orig_C11 ==
    LET src == installationPath \o <<bundleVersion>> IN
    environmentPathVar = (IF platform = winPlatform
                          THEN <<src \o <<"Scripts">>, binPath, AmbientPath>>
                          ELSE <<src \o <<"bin">>, AmbientPath>>)

\* C11 (amended): on Windows the search path lists binPath first, then the
\* Scripts directory, then the inherited PATH; elsewhere it lists the bin
\* directory and then the inherited PATH.
Thm_C11 ==
    LET src == installationPath \o <<bundleVersion>> IN
    /\ Len(environmentPathVar) = (IF platform = winPlatform THEN 3 ELSE 2)
    /\ environmentPathVar[1] = binPath
    /\ environmentPathVar[Len(environmentPathVar)] = AmbientPath
    /\ platform = winPlatform => environmentPathVar[2] = src \o <<"Scripts">>
    /\ platform # winPlatform => environmentPathVar[1] = src \o <<"bin">>

Wit_C11 ==
    /\ platform = winPlatform
    /\ installationPath \in UserPaths
    /\ environmentPathVar[2] = installationPath \o <<bundleVersion, "Scripts">>
    /\ \E c \in Calls : calls[c].moved

\* C12: isPythonInstalled answers true exactly when the configuration store
\* records an installation path and the executable exists under that path;
\* the in-memory installation path plays no part.
Thm_C12 ==
    probe.installed # "unknown"
    => ((probe.installed = "yes")
        <=> (config # None /\ config \in exeAt))

Wit_C12 ==
    /\ probe.installed = "no"
    /\ config = None
    /\ installationPath \in exeAt
    /\ DefaultPythonLocation \in exeAt

\* C13: off Windows no package-manager subprocess is ever started.  On
\* Windows the requirements install is started when the package step has
\* resolved and sparkmagic when the requirements install has exited with 0;
\* a non-zero exit of either rejects the attempt, sparkmagic is not started
\* after a failed requirements install, and the task is never announced
\* Succeeded.
Thm_C13 ==
    \A c \in Calls :
        LET s == calls[c].steps IN
        /\ platform # winPlatform
           => /\ s \cap {"pip1.begin", "pip2.begin"} = {}
              /\ calls[c].pc \notin {"pip1", "pip2"}
        /\ platform = winPlatform
           => /\ calls[c].P = "resolved" => "pip1.begin" \in s
              /\ "pip1.end" \in s <=> "pip2.begin" \in s
        /\ "pip1.failed" \in s
           => /\ calls[c].pc = "rejected"
              /\ s \cap {"pip2.begin", "announce"} = {}
              /\ calls[c].tstatus # "Succeeded"
        /\ "pip2.failed" \in s
           => /\ calls[c].pc = "rejected"
              /\ "announce" \notin s
              /\ calls[c].tstatus # "Succeeded"

Wit_C13 ==
    \E c, d \in Calls :
        /\ platform = winPlatform
        /\ "pip1.failed" \in calls[c].steps
        /\ "pip2.failed" \in calls[d].steps

\* C14 (as stated): when creating the installation directory fails, the
\* attempt is rejected and no download request, file write, unpack or
\* package-install step is executed.
Orig_C14 ==
    \A c \in Calls :
        calls[c].firstFail = "mkdir"
        => /\ calls[c].pc = "rejected"
           /\ calls[c].steps \cap {"download.begin", "download.end", "unpack.begin",
                                   "decompress.begin", "pip1.begin", "pip2.begin"} = {}

\* C15 (as stated): when the prior extracted copy exists and deleting it
\* fails, the attempt is rejected and the archive is not decompressed.
Orig_C15 ==
    \A c \in Calls :
        calls[c].firstFail = "rmstale"
        => /\ calls[c].pc = "rejected"
           /\ "decompress.begin" \notin calls[c].steps
           /\ calls[c].pipe # "decompress"

\* C16 (as stated): when decompression fails after a download that
\* succeeded (directory created, status 200, file written), the archive is
\* not deleted, no package-install step runs, and once the attempt is
\* quiescent the task is Failed with the decompression error embedded.
Orig_C16 ==
    \A c \in Calls :
        (/\ "decompress.failed" \in calls[c].steps
         /\ calls[c].http = OkHttp
         /\ calls[c].firstFail \notin {"mkdir", "transport", "http", "write"})
        => /\ calls[c].steps \cap {"unlink.begin", "pip1.begin", "pip2.begin"} = {}
           /\ Quiescent(calls[c])
              => /\ calls[c].tstatus = "Failed"
                 /\ calls[c].tfail = "decompress"

\* C17 (as stated): the package step resolves only once the archive deletion
\* has finished, and a failed deletion rejects the attempt: the task ends as
\* Failed, and neither a package install nor the completion announcement
\* takes place.
Orig_C17 ==
    \A c \in Calls :
        /\ calls[c].P = "resolved" => "unlink.end" \in calls[c].steps
        /\ calls[c].firstFail = "unlink"
           => /\ calls[c].pc = "rejected"
              /\ calls[c].tstatus = "Failed"
              /\ calls[c].steps \cap {"pip1.begin", "pip2.begin", "announce"} = {}

\* C18: the configuration store changes only in the step in which a call
\* resolves, and that call either took the branch for an already present
\* executable or ran installDependencies to its end (the pipeline announced
\* Succeeded, or installDependencies found nothing to install); the value
\* stored is the installation path, and it is stored in the step that
\* resolves the promise, not after it.  A step that rejects a call, by a
\* guard or after a pipeline failure, leaves the store unchanged.
Thm_C18 ==
    [][/\ config' # config
          => \E c \in Calls :
                /\ calls[c].pc \in {"cfg", "skipCfg"}
                /\ calls'[c].pc = "resolved"
                /\ \/ calls[c].skip
                   \/ "announce" \in calls[c].steps /\ calls[c].P = "resolved"
                   \/ calls[c].P = "none"
       /\ \A c \in Calls :
             /\ (~Settled(calls[c]) /\ calls'[c].pc = "resolved")
                => /\ calls[c].pc \in {"cfg", "skipCfg"}
                   /\ config' = calls[c].cfgArg
                   /\ config' = installationPath'
             /\ (~Settled(calls[c]) /\ calls'[c].pc \in {"rejected", "rejRunning", "rejPending"})
                => config' = config]_vars

Wit_C18 ==
    \E c \in Calls :
        /\ calls[c].pc = "rejected"
        /\ calls[c].tfail \in {"pip2", "config"}
        /\ calls[c].moved
        /\ config # installationPath

\* C19 (as stated): once a task's status is Succeeded or Failed, updateStatus
\* is never called on that task again.
Orig_C19 ==
    [][\A c \in Calls :
          calls[c].tstatus \in Terminal
          => /\ calls'[c].tstatus = calls[c].tstatus
             /\ calls'[c].late = calls[c].late]_vars

Outstanding(r) ==
    \/ r.pc \in {"open", "scheduled", "pip1", "pip2", "cfg", "skipCfg"}
    \/ r.pipe \in {"mkdirs", "request", "streaming", "decompress", "unlink"}

\* C21 (as stated), in the form a finite run refutes: once every external
\* operation of every call has completed or failed, every call that was
\* issued has settled, and if one of them set the guard the guard is false.
Orig_C21 ==
    (\A d \in Calls : ~Outstanding(calls[d]))
    => \A c \in Calls :
          /\ Issued(calls[c]) => Settled(calls[c])
          /\ calls[c].passed => installInProgress = FALSE

\* C22: a reconfiguration that keeps the installation path leaves the search
\* path and the environment of the child processes as they were; no
\* reconfiguration changes the PATH of process.env; PATH in the environment
\* of the child processes is the search path; and PYTHONPATH, PYTHONSTARTUP
\* and PYTHONHOME are set in neither environment.
Thm_C22 ==
    [][/\ installationPath' = installationPath
          => /\ environmentPathVar' = environmentPathVar
             /\ envs'.execOptions = envs.execOptions
       /\ envs'.processEnv["PATH"] = envs.processEnv["PATH"]
       /\ envs'.processEnv["Path"] = envs.processEnv["Path"]
       /\ envs.execOptions["PATH"] = environmentPathVar
       /\ envs'.execOptions["PATH"] = environmentPathVar'
       /\ \A k \in PythonVars :
             /\ envs.processEnv[k] = None /\ envs.execOptions[k] = None
             /\ envs'.processEnv[k] = None /\ envs'.execOptions[k] = None]_vars

Wit_C22 ==
    /\ envs.count = MaxReconfigure
    /\ platform = winPlatform
    /\ installationPath \in UserPaths
    /\ envs.processEnv["Path"] = <<AmbientPath>>
    /\ envs.execOptions["Path"] = None
    /\ envs.execOptions["PATH"] =
          <<installationPath \o <<bundleVersion>>,
            installationPath \o <<bundleVersion, "Scripts">>,
            AmbientPath>>

\* The messages of the postMessage calls made before dispose(), in call order.
Accepted(w) ==
    LET early == SelectSeq(w.calls, LAMBDA c : ~c.late)
    IN [k \in 1..Len(early) |-> early[k].msg]

IsPrefix(a, b) == Len(a) <= Len(b) /\ a = SubSeq(b, 1, Len(a))

\* C24: what the underlying worker has been posted is always an initial part
\* of: the module id, then the messages of the postMessage calls made before
\* dispose(), in call order; terminate is called at most once, and when it
\* has been called all of those messages have been posted.
Thm_C24 ==
    \A i \in DOMAIN ww.workers :
        LET w == ww.workers[i]
            expected == <<ModuleMsg>> \o Accepted(w)
        IN /\ IsPrefix(w.posted, expected)
           /\ w.terminated <= 1
           /\ w.terminated = 1 => w.posted = expected

Wit_C24 ==
    \E i \in DOMAIN ww.workers :
        LET w == ww.workers[i]
        IN /\ w.terminated = 1
           /\ w.disposed = 2
           /\ w.posted = <<ModuleMsg, 1>>
           /\ Len(w.calls) = 2 /\ w.calls[2].late
           /\ w.thens = <<>>

\* The error most recently passed to the caller's onErrorCallback by a worker
\* of the factory, NoError when there is none.
RECURSIVE LastNotified(_, _)
LastNotified(f, n) ==
    IF n = 0 THEN NoError
    ELSE IF ww.notified[n][1] = f THEN ww.notified[n][2]
    ELSE LastNotified(f, n - 1)

\* C23: every error event of a worker is passed on to the caller's
\* onErrorCallback, under the factory that created the worker.  A create()
\* on a factory one of whose workers has reported an error throws the error
\* reported last by a worker of that factory and constructs no worker; a
\* create() on a factory none of whose workers has reported an error throws
\* no recorded error, whatever happened on the other factory.
Thm_C23 ==
    [][/\ Len(ww'.notified) = Len(ww'.fired)
       /\ \A n \in DOMAIN ww'.fired :
             /\ ww'.notified[n][2] = ww'.fired[n][2]
             /\ ww'.notified[n][1] = ww'.workers[ww'.fired[n][1]].factory
       /\ ww'.LAST_WORKER_ID # ww.LAST_WORKER_ID
          => LET f == ww'.lastCreate.factory
                 e == LastNotified(f, Len(ww.notified))
             IN IF e # NoError
                THEN /\ ww'.lastCreate.result = "threw"
                     /\ ww'.lastCreate.error = e
                     /\ ww'.workers = ww.workers
                ELSE ww'.lastCreate.error \notin Errors]_vars

Wit_C23 ==
    /\ ww.LAST_WORKER_ID = MaxCreates
    /\ ww.notified = <<<<"f1", "e1">>, <<"f1", "e2">>>>
    /\ ww.lastCreate = [factory |-> "f1", result |-> "threw", error |-> "e2"]
    /\ Len(ww.workers) = 2
    /\ ww.workers[2].factory = "f2"

====
